---- MODULE Spec2Model ----
(***************************************************************************)
(* Model of alicache/revproxy/revproxy.py: the caching reverse proxy that  *)
(* mirrors remote files to a local directory.                              *)
(*                                                                         *)
(*   robust_get       coroutine run by the (single-threaded) reactor       *)
(*   robust_get_sync  the download, run in a thread of the reactor's pool  *)
(*   clean_cache      periodic sweep, run by the reactor                   *)
(*   sanitize_cache   removal of left placeholders, run once by main       *)
(*                                                                         *)
(* The file system is the only shared state.  A file name is the sequence  *)
(* of its dot-separated parts after the resource path: the resource        *)
(* <<"a">> has the placeholder <<"a","tmp">> and the failure marker        *)
(* <<"a","404">> (dest + ".tmp", dest + ".404").                           *)
(***************************************************************************)
EXTENDS Integers, Sequences, FiniteSets, TLC

VARIABLES CONF,    \* configuration, fixed by main() before serving
          remote,  \* content of each resource on the backend
          now,     \* time.time(), in ticks of 1/TicksPerSec s
          fs,      \* entries under LOCAL_ROOT: name -> [dir, data, mtime, atime]
          co,      \* robust_get coroutines
          ret,     \* what the step just taken gave a caller of robust_get
          thr,     \* robust_get_sync invocations (pool threads)
          main     \* where main() is: "sanitize" (before line 296) or "run" (APP.run)

vars == <<CONF, remote, now, fs, co, ret, thr, main>>

(***************************************************************************)
(* Bounds of the model.                                                    *)
(***************************************************************************)
MaxRetries == 3        \* HTTP_CONN_RETRIES ranges over 0..MaxRetries (downloader alone)
MaxServeRetries == 1   \* HTTP_CONN_RETRIES ranges over 0..MaxServeRetries (whole server)
MaxRemote == 2         \* a remote resource has 1..MaxRemote bytes (downloader alone)
MaxErrLen == 0         \* Content-Length of an error response: none or 0..MaxErrLen
MaxTime == 2           \* the clock stops here
MaxWait == 1           \* wait_timeout ranges over None and 1..MaxWait
MaxCallers == 2        \* concurrent robust_get coroutines
MaxTasks == 2          \* robust_get_sync invocations held at a time
IndexDuration == 1     \* CACHE_INDEX_DURATION, scaled down
FileDuration == 1      \* CACHE_FILE_DURATION, scaled down
TicksPerSec == 2       \* resolution of the clock and of the file times

PollInterval == 1      \* deferLater(reactor, 1, ...)

None == -1             \* Python None for wait_timeout / "no value" for sizes

Paths == {<<"a">>}
Callers == 1..MaxCallers
Tasks == 1..MaxTasks
WaitTimeouts == {None} \cup (1..MaxWait)   \* process() passes 12 or nothing

(***************************************************************************)
(* File names and the file system.                                         *)
(***************************************************************************)
Tmp(dest) == Append(dest, "tmp")

Marker(dest) == Append(dest, "404")

EndsWith(name, suffix) == Len(name) >= 2 /\ name[Len(name)] = suffix

IsIndexName(name) == name = <<"index.json">>

\* a name whose first part starts with a dot: a hidden file, or a file under a
\* hidden directory (glob does not match them with * and **)
IsHidden(name) == name[1] = ".h"

IsDir(f, name) == name \in DOMAIN f /\ f[name].dir

IsFile(f, name) == name \in DOMAIN f /\ ~f[name].dir

Seconds(d) == d * TicksPerSec

\* int(x) of a time difference of d ticks: whole seconds, rounded towards zero
IntSec(d) == IF d >= 0 THEN d \div TicksPerSec ELSE -((-d) \div TicksPerSec)

Created(f, name, t) ==
    \* open(name, "wb"): create empty, or truncate an existing file
    [n \in DOMAIN f \cup {name} |->
        IF n = name
        THEN [dir |-> FALSE, data |-> <<>>, mtime |-> t,
              atime |-> IF name \in DOMAIN f THEN f[name].atime ELSE t]
        ELSE f[n]]

Appended(f, name, bytes, t) ==
    \* open(name, "ab") and write: creates the file when it is missing
    [n \in DOMAIN f \cup {name} |->
        IF n = name
        THEN IF name \in DOMAIN f
             THEN [f[name] EXCEPT !.data = f[name].data \o bytes,
                                  !.mtime = IF bytes = <<>> THEN f[name].mtime ELSE t]
             ELSE [dir |-> FALSE, data |-> bytes, mtime |-> t, atime |-> t]
        ELSE f[n]]

\* the directory that holds the files of a path
DirName(dest) == <<"d">>

MadeDirs(f, dest, t) ==
    \* os.makedirs(dest_dir): EEXIST on a directory is passed over
    IF DirName(dest) \in DOMAIN f THEN f
    ELSE [n \in DOMAIN f \cup {DirName(dest)} |->
            IF n = DirName(dest) THEN [dir |-> TRUE, data |-> <<>>, mtime |-> t, atime |-> t]
            ELSE f[n]]

Unlinked(f, name) == [n \in DOMAIN f \ {name} |-> f[n]]

Renamed_keeps_source(f, from, to) ==
    [n \in DOMAIN f \cup {to} |-> IF n = to THEN f[from] ELSE f[n]]

Renamed(f, from, to) ==
    \* os.rename: replaces `to`, keeps the times of `from`
    [n \in (DOMAIN f \ {from}) \cup {to} |-> IF n = to THEN f[from] ELSE f[n]]

(***************************************************************************)
(* robust_get: state inspection and the wait loop.                         *)
(***************************************************************************)
Truthy(v) == v # None /\ v # 0

Cached_marker_unchecked(f, dest) == IsFile(f, dest)

Cached_file_unchecked(f, dest) == IsFile(f, Marker(dest))

Cached_after_placeholder(f, dest) ==
    ~IsFile(f, Tmp(dest)) /\ (IsFile(f, Marker(dest)) \/ IsFile(f, dest))

Cached(f, dest) == IsFile(f, Marker(dest)) \/ IsFile(f, dest)

BeingCached_unchecked(f, dest) == FALSE

BeingCached(f, dest) == IsFile(f, Tmp(dest))

\* a waiting coroutine keeps time0 + wait_timeout as its deadline (None when
\* wait_timeout is not set): time.time() - time0 > wait_timeout is t > deadline
Deadline(wait_timeout, time0) ==
    IF Truthy(wait_timeout) THEN time0 + Seconds(wait_timeout) ELSE None

TimedOut_at_deadline(deadline, t) == deadline # None /\ t >= deadline

TimedOut(deadline, t) == deadline # None /\ t > deadline

\* timer: the seconds left before the call made by deferLater fires
IdleCo == [pc |-> "idle", dest |-> <<>>, deadline |-> None, timer |-> 0, task |-> 0,
           early |-> FALSE]

NoRet == [dest |-> <<>>, res |-> "none", exc |-> "none", waited |-> FALSE]

\* i, size_final, size_partial: the locals of robust_get_sync; body: the part of
\* the response still to come; met404, attempts, pauses, wrote: what the
\* invocation has done so far
FreeThr == [pc |-> "free", dest |-> <<>>, i |-> 0, size_final |-> -1,
            size_partial |-> -1, body |-> <<>>, met404 |-> FALSE,
            result |-> "none", exc |-> "none", attempts |-> 0,
            pauses |-> <<>>, wrote |-> "none"]

\* the record left by an invocation that has ended
Ended(T, result, wrote, exc) ==
    [FreeThr EXCEPT !.pc = "done", !.dest = T.dest, !.result = result,
                    !.wrote = wrote, !.exc = exc]

Active(T) == T.pc \in {"request", "stream", "unlink"}

ActiveOn(dest) == {t \in Tasks : Active(thr[t]) /\ thr[t].dest = dest}

\* the slot of the next invocation: one never used, else one whose invocation
\* has ended and is awaited by no coroutine
Awaited(t) == \E c \in Callers : co[c].pc = "awaiting" /\ co[c].task = t

FreeSlots ==
    LET unused == {t \in Tasks : thr[t].pc = "free"}
        ended == {t \in Tasks : thr[t].pc = "done" /\ ~Awaited(t)}
        pick(S) == {t \in S : \A u \in S : t <= u}
    IN IF unused # {} THEN pick(unused) ELSE pick(ended)

\* history kept for the coroutines in the wait loop: early says that the
\* placeholder they wait for has gone away, at a time t at which their
\* deadline had not elapsed, and has not come back
NoteGone(C, dest, t) ==
    [c \in Callers |->
        IF C[c].pc = "sleeping" /\ C[c].dest = dest
        THEN [C[c] EXCEPT !.early = C[c].deadline # None /\ t <= C[c].deadline]
        ELSE C[c]]

NoteBack(C, dest) ==
    [c \in Callers |->
        IF C[c].pc = "sleeping" /\ C[c].dest = dest
        THEN [C[c] EXCEPT !.early = FALSE] ELSE C[c]]

\* return res (a GetRes), or the propagation of an exception; waited: from
\* the wait loop.  NoRet: the step returns nothing to a caller
Returned(dest, res, waited) ==
    [dest |-> dest, res |-> res, exc |-> "none", waited |-> waited]

Raised(dest, exc) == [dest |-> dest, res |-> "raised", exc |-> exc, waited |-> FALSE]

\* lines 63-99 up to the first suspension point
robust_get(c, dest, wt, mkdir_ok) ==
    /\ main = "run"
    /\ co[c].pc = "idle"
    /\ IF Cached(fs, dest)
       THEN /\ ret' = Returned(dest, "CACHE_HIT", FALSE)
            /\ UNCHANGED <<fs, co, thr>>
       ELSE IF BeingCached(fs, dest)
       THEN /\ co' = [co EXCEPT ![c] = [IdleCo EXCEPT !.pc = "sleeping", !.dest = dest,
                                           !.deadline = Deadline(wt, now),
                                           !.timer = PollInterval]]
            /\ ret' = NoRet
            /\ UNCHANGED <<fs, thr>>
       ELSE IF ~mkdir_ok
       THEN /\ ret' = Raised(dest, "OSError")
            /\ UNCHANGED <<fs, co, thr>>
       ELSE \E t \in FreeSlots :
            /\ fs' = Created(MadeDirs(fs, dest, now), Tmp(dest), now)
            /\ thr' = [thr EXCEPT ![t] = [FreeThr EXCEPT !.pc = "request", !.dest = dest]]
            /\ IF Truthy(wt)
               THEN /\ co' = NoteBack(co, dest)
                    /\ ret' = Returned(dest, "MUST_WAIT", FALSE)
               ELSE /\ co' = [NoteBack(co, dest) EXCEPT ![c] =
                                [IdleCo EXCEPT !.pc = "awaiting", !.dest = dest,
                                               !.task = t]]
                    /\ ret' = NoRet
    /\ UNCHANGED <<main, CONF, remote, now>>

\* The same lines one filesystem operation at a time, as they interleave when
\* the callers are server processes of their own that share LOCAL_ROOT.
\* wait_timeout is read at line 80 or at line 96 only: it is drawn there.
\* line 64: os.path.isfile(dest + ".404")
LookMarker(c, dest) ==
    /\ main = "run"
    /\ co[c].pc = "idle"
    /\ IF IsFile(fs, Marker(dest))
       THEN /\ ret' = Returned(dest, "CACHE_HIT", FALSE)
            /\ co' = co
       ELSE /\ ret' = NoRet
            /\ co' = [co EXCEPT ![c] = [IdleCo EXCEPT !.pc = "line69", !.dest = dest]]
    /\ UNCHANGED <<main, CONF, remote, now, fs, thr>>

\* line 69: os.path.isfile(dest)
LookDest(c) ==
    /\ co[c].pc = "line69"
    /\ IF IsFile(fs, co[c].dest)
       THEN /\ ret' = Returned(co[c].dest, "CACHE_HIT", FALSE)
            /\ co' = [co EXCEPT ![c] = IdleCo]
       ELSE /\ ret' = NoRet
            /\ co' = [co EXCEPT ![c].pc = "line75"]
    /\ UNCHANGED <<main, CONF, remote, now, fs, thr>>

\* line 75: os.path.isfile(dest_tmp)
LookTmp(c, wt) ==
    /\ co[c].pc = "line75"
    /\ IF BeingCached(fs, co[c].dest)
       THEN co' = [co EXCEPT ![c] = [IdleCo EXCEPT !.pc = "sleeping", !.dest = co[c].dest,
                                        !.deadline = Deadline(wt, now),
                                        !.timer = PollInterval]]
       ELSE co' = [co EXCEPT ![c].pc = "line91"]
    /\ ret' = NoRet
    /\ UNCHANGED <<main, CONF, remote, now, fs, thr>>

\* lines 85-92: os.makedirs, then open(dest_tmp, "wb"), which creates the file
\* or empties the one that is there
OpenTmp(c, mkdir_ok) ==
    /\ co[c].pc = "line91"
    /\ IF ~mkdir_ok
       THEN /\ ret' = Raised(co[c].dest, "OSError")
            /\ co' = [co EXCEPT ![c] = IdleCo]
            /\ fs' = fs
       ELSE /\ ret' = NoRet
            /\ co' = [NoteBack(co, co[c].dest) EXCEPT ![c].pc = "line95"]
            /\ fs' = Created(MadeDirs(fs, co[c].dest, now), Tmp(co[c].dest), now)
    /\ UNCHANGED <<main, CONF, remote, now, thr>>

\* lines 95-99: threads.deferToThread(robust_get_sync, ...)
Defer(c, wt) ==
    /\ co[c].pc = "line95"
    /\ \E t \in FreeSlots :
          /\ thr' = [thr EXCEPT ![t] = [FreeThr EXCEPT !.pc = "request", !.dest = co[c].dest]]
          /\ IF Truthy(wt)
             THEN /\ co' = [co EXCEPT ![c] = IdleCo]
                  /\ ret' = Returned(co[c].dest, "MUST_WAIT", FALSE)
             ELSE /\ co' = [co EXCEPT ![c] = [IdleCo EXCEPT !.pc = "awaiting",
                                                 !.dest = co[c].dest, !.task = t]]
                  /\ ret' = NoRet
    /\ UNCHANGED <<main, CONF, remote, now, fs>>

\* lines 78-82: the coroutine wakes up from its sleep
Poll(c) ==
    /\ co[c].pc = "sleeping"
    /\ co[c].timer = 0
    /\ IF TimedOut(co[c].deadline, now)
       THEN /\ co' = [co EXCEPT ![c] = IdleCo]
            /\ ret' = Returned(co[c].dest, "MUST_WAIT", TRUE)
       ELSE IF BeingCached(fs, co[c].dest)
       THEN /\ co' = [co EXCEPT ![c].timer = PollInterval]
            /\ ret' = NoRet
       ELSE /\ co' = [co EXCEPT ![c] = IdleCo]
            /\ ret' = Returned(co[c].dest, "END_WAIT", TRUE)
    /\ UNCHANGED <<main, CONF, remote, now, fs, thr>>

\* lines 98-99: the awaited download has ended
EndFetch(c) ==
    /\ co[c].pc = "awaiting"
    /\ thr[co[c].task].pc = "done"
    /\ co' = [co EXCEPT ![c] = IdleCo]
    /\ ret' = IF thr[co[c].task].result = "raised"
              THEN Raised(co[c].dest, thr[co[c].task].exc)
              ELSE Returned(co[c].dest, "END_FETCH", FALSE)
    /\ UNCHANGED <<main, CONF, remote, now, fs, thr>>

(***************************************************************************)
(* The backend, as seen through requests.get.                              *)
(***************************************************************************)
Min(a, b) == IF a <= b THEN a ELSE b

\* what one attempt meets: no response at all, an error status, or a response
\* that serves the resource; has_cl: the response carries a Content-Length
BackendMoves ==
    [kind : {"ConnectionError", "Timeout"}, status : {0}, has_cl : {FALSE}, err_len : {0}]
    \cup [kind : {"HTTPError"}, status : {404, 500}, has_cl : BOOLEAN, err_len : 0..MaxErrLen]
    \cup [kind : {"OK"}, status : {200}, has_cl : BOOLEAN, err_len : {0}]

\* a server honouring "Range: bytes=lo-hi" (hi inclusive); a range whose end
\* precedes its start is ignored, one starting past the end is refused
Serve(content, range) ==
    IF range = <<>> \/ range[1] > range[2]
    THEN [status |-> 200, body |-> content]
    ELSE IF range[1] >= Len(content)
    THEN [status |-> 416, body |-> <<>>]
    ELSE [status |-> 206,
          body |-> SubSeq(content, range[1] + 1, Min(range[2] + 1, Len(content)))]

(***************************************************************************)
(* robust_get_sync.                                                        *)
(***************************************************************************)
\* 0.4 * (1.4 ** (i - 1)) as the fraction num/den
RECURSIVE Pow(_, _)
Pow(b, e) == IF e = 0 THEN 1 ELSE b * Pow(b, e - 1)

PauseSec(i) == [num |-> 4 * Pow(14, i - 1), den |-> 10 * Pow(10, i - 1)]

RangeHeader(size_ondisk, size_final) ==
    IF size_final # -1 THEN <<size_ondisk, size_final>> ELSE <<>>

IsRequestException_http_only(kind) == kind \in {"RequestException", "HTTPError"}

IsRequestException(kind) ==
    kind \in {"RequestException", "ConnectionError", "Timeout", "HTTPError",
              "ChunkedEncodingError"}

StatusOf(exc) == IF exc.kind = "HTTPError" THEN exc.status ELSE -1

GiveUp_last_only(status_code, i, retries) == i = retries - 1

GiveUp(status_code, i, retries) == status_code = 404 \/ i = retries - 1

Validated(size_partial, size_downloaded) ==
    size_partial = size_downloaded \/ size_partial = -1

\* lines 143-151: the except clause; on giving up the failure marker is written
GivesUp(T, exc) ==
    IsRequestException(exc.kind) /\ GiveUp(StatusOf(exc), T.i, CONF.HTTP_CONN_RETRIES)

Failed(T, exc) ==
    IF ~IsRequestException(exc.kind)
    THEN Ended(T, "raised", T.wrote, exc.kind)
    ELSE IF GivesUp(T, exc)
    THEN [T EXCEPT !.pc = "unlink", !.met404 = (StatusOf(exc) = 404), !.body = <<>>,
                   !.size_partial = -1, !.size_final = -1, !.wrote = "marker"]
    ELSE [T EXCEPT !.pc = "request", !.i = T.i + 1, !.met404 = (StatusOf(exc) = 404),
                   !.body = <<>>, !.size_partial = -1]

MarkerWritten_skipped(f, T, exc, t) == f

MarkerWritten(f, T, exc, t) ==
    IF GivesUp(T, exc) THEN Created(f, Marker(T.dest), t) ELSE f

NoExc == [kind |-> "none", status |-> 0]

\* lines 110-131: the backoff pause, the request and the response headers
Request(t, b) ==
    /\ thr[t].pc = "request"
    /\ LET T == thr[t]
           tmp == Tmp(T.dest)
       IN IF T.i >= CONF.HTTP_CONN_RETRIES
          THEN /\ thr' = [thr EXCEPT ![t] = Ended(T, "False", T.wrote, "none")]
               /\ fs' = fs
          ELSE LET P == [T EXCEPT !.pauses = IF T.i > 0 THEN Append(T.pauses, PauseSec(T.i))
                                              ELSE T.pauses]
                   present == IsFile(fs, tmp)
                   size_ondisk == IF present THEN Len(fs[tmp].data) ELSE 0
                   range == RangeHeader(size_ondisk, T.size_final)
                   A == [P EXCEPT !.attempts = T.attempts + 1]
                   R == Serve(remote[T.dest], range)
                   status == IF b.kind = "OK" THEN R.status ELSE b.status
                   size_partial ==
                       IF ~b.has_cl THEN -1
                       ELSE IF status >= 400 THEN b.err_len ELSE Len(R.body)
                   H == [A EXCEPT !.size_partial = size_partial,
                                  !.size_final = IF T.size_final = -1
                                                 THEN size_partial ELSE T.size_final]
                   exc == IF ~present THEN [kind |-> "OSError", status |-> 0]
                          ELSE IF b.kind \in {"ConnectionError", "Timeout"}
                          THEN [kind |-> b.kind, status |-> 0]
                          ELSE IF status >= 400
                          THEN [kind |-> "HTTPError", status |-> status]
                          ELSE NoExc
                   F == IF ~present THEN P
                        ELSE IF b.kind \in {"ConnectionError", "Timeout"} THEN A
                        ELSE H
               IN IF exc = NoExc
                  THEN /\ thr' = [thr EXCEPT ![t] = [H EXCEPT !.pc = "stream",
                                                              !.body = R.body]]
                       /\ fs' = fs
                  ELSE /\ thr' = [thr EXCEPT ![t] = Failed(F, exc)]
                       /\ fs' = MarkerWritten(fs, F, exc, now)
    /\ ret' = NoRet
    /\ UNCHANGED <<main, CONF, remote, now, co>>

\* lines 132-142: the body arrives (all of it, or only its first n bytes),
\* is appended to the placeholder and, when complete, the placeholder is renamed
Stream(t, n) ==
    /\ thr[t].pc = "stream"
    /\ n <= Len(thr[t].body)
    /\ LET T == thr[t]
           tmp == Tmp(T.dest)
           written == Appended(fs, tmp, SubSeq(T.body, 1, n), now)
           exc == IF n < Len(T.body) /\ T.size_partial = -1
                  THEN [kind |-> "ChunkedEncodingError", status |-> 0]
                  ELSE IF ~Validated(T.size_partial, n)
                  THEN [kind |-> "RequestException", status |-> 0]
                  ELSE NoExc
       IN IF exc = NoExc
          THEN /\ fs' = Renamed(written, tmp, T.dest)
               /\ thr' = [thr EXCEPT ![t] = Ended(T, "True", "final", "none")]
               /\ co' = NoteGone(co, T.dest, now)
          ELSE /\ fs' = MarkerWritten(written, T, exc, now)
               /\ thr' = [thr EXCEPT ![t] = Failed(T, exc)]
               /\ co' = co
    /\ ret' = NoRet
    /\ UNCHANGED <<main, CONF, remote, now>>

\* lines 152-156
UnlinkTmp(t) ==
    /\ thr[t].pc = "unlink"
    /\ fs' = Unlinked(fs, Tmp(thr[t].dest))
    /\ thr' = [thr EXCEPT ![t] = Ended(thr[t], "False", thr[t].wrote, "none")]
    /\ co' = NoteGone(co, thr[t].dest, now)
    /\ ret' = NoRet
    /\ UNCHANGED <<main, CONF, remote, now>>

(***************************************************************************)
(* clean_cache.                                                            *)
(***************************************************************************)
ShouldRemove(name, sta, t) ==
    LET a_ago == IntSec(t - sta.atime)
        m_ago == IntSec(t - sta.mtime)
    IN IF IsIndexName(name) \/ EndsWith(name, "404")
       THEN m_ago > CONF.CACHE_INDEX_DURATION
       ELSE a_ago > CONF.CACHE_FILE_DURATION

\* glob.iglob(LOCAL_ROOT/**, recursive=True)
Walked(f) == {n \in DOMAIN f : ~IsHidden(n)}

Swept_placeholders_too(f, t) ==
    {n \in Walked(f) : ~IsDir(f, n) /\ ShouldRemove(n, f[n], t)}

Swept(f, t) ==
    {n \in Walked(f) : ~IsDir(f, n) /\ ~EndsWith(n, "tmp") /\ ShouldRemove(n, f[n], t)}

clean_cache ==
    /\ main = "run"
    /\ fs' = [n \in DOMAIN fs \ Swept(fs, now) |-> fs[n]]
    /\ ret' = NoRet
    /\ UNCHANGED <<main, CONF, remote, now, co, thr>>

\* glob.iglob(LOCAL_ROOT/**/*.tmp, recursive=True); os.unlink of a directory
\* raises OSError, which is passed over
Sanitized(f) == {n \in DOMAIN f : ~IsHidden(n) /\ EndsWith(n, "tmp") /\ ~IsDir(f, n)}

\* main, lines 296-299: the cache is sanitized, then the sweep is scheduled and
\* the server starts to take requests
sanitize_cache ==
    /\ main = "sanitize"
    /\ fs' = [n \in DOMAIN fs \ Sanitized(fs) |-> fs[n]]
    /\ main' = "run"
    /\ UNCHANGED <<CONF, remote, now, co, ret, thr>>

\* one second passes
Tick ==
    /\ now < Seconds(MaxTime)
    /\ now' = now + TicksPerSec
    /\ co' = [c \in Callers |->
                IF co[c].timer > 0 THEN [co[c] EXCEPT !.timer = co[c].timer - 1]
                ELSE co[c]]
    /\ ret' = NoRet
    /\ UNCHANGED <<main, CONF, remote, fs, thr>>

\* main(): the configuration is read, the cache holds no file, nothing runs
Started(retries, sizes) ==
    /\ CONF \in [HTTP_CONN_RETRIES : retries,
                 CACHE_INDEX_DURATION : {IndexDuration},
                 CACHE_FILE_DURATION : {FileDuration}]
    /\ remote \in [Paths -> {[k \in 1..n |-> k] : n \in sizes}]
    /\ now = 0
    /\ fs = [n \in {} |-> n]
    /\ co = [c \in Callers |-> IdleCo]
    /\ ret = NoRet
    /\ thr = [t \in Tasks |-> FreeThr]
    /\ main = "run"

Init == Started(0..MaxServeRetries, {1})

InitDownload == Started(0..MaxRetries, 1..MaxRemote)

Next ==
    \/ \E c \in Callers, dest \in Paths, wt \in WaitTimeouts, mk \in BOOLEAN :
          robust_get(c, dest, wt, mk)
    \/ \E c \in Callers : Poll(c)
    \/ \E c \in Callers : EndFetch(c)
    \/ \E t \in Tasks, b \in BackendMoves : Request(t, b)
    \/ \E t \in Tasks, n \in 0..MaxRemote : Stream(t, n)
    \/ \E t \in Tasks : UnlinkTmp(t)
    \/ clean_cache
    \/ Tick

Spec == Init /\ [][Next]_vars

\* the pool thread that runs an invocation keeps being scheduled
Scheduled ==
    \A t \in Tasks :
        /\ WF_vars(\E b \in BackendMoves : Request(t, b))
        /\ WF_vars(\E n \in 0..MaxRemote : Stream(t, n))
        /\ WF_vars(UnlinkTmp(t))

SpecLive == Init /\ [][Next]_vars /\ Scheduled

\* the downloader on its own: no clock, no sweep
NextDownload ==
    \/ \E c \in Callers, dest \in Paths, wt \in WaitTimeouts, mk \in BOOLEAN :
          robust_get(c, dest, wt, mk)
    \/ \E c \in Callers : EndFetch(c)
    \/ \E t \in Tasks, b \in BackendMoves : Request(t, b)
    \/ \E t \in Tasks, n \in 0..MaxRemote : Stream(t, n)
    \/ \E t \in Tasks : UnlinkTmp(t)

SpecDownload == InitDownload /\ [][NextDownload]_vars

\* the periodic sweep on its own, over the files a cache root can hold: a
\* content file, its marker, its placeholder, a directory listing, a hidden
\* file and a directory, with every access and modification time
SweepNames == {<<"a">>, <<"a", "404">>, <<"a", "tmp">>, <<"index.json">>, <<".h">>, <<"d">>}

Stats(name, t) ==
    [dir : {name = <<"d">>}, data : {<<>>}, mtime : 0..t, atime : 0..t]

InitSweep ==
    /\ CONF \in [HTTP_CONN_RETRIES : {0},
                 CACHE_INDEX_DURATION : 0..IndexDuration,
                 CACHE_FILE_DURATION : 0..FileDuration]
    /\ remote = [p \in Paths |-> <<1>>]
    /\ now = Seconds(MaxTime)
    /\ \E S \in {{}} \cup {{n} : n \in SweepNames} :
          fs \in {f \in [S -> UNION {Stats(n, now) : n \in S}] :
                    \A n \in S : f[n] \in Stats(n, now)}
    /\ co = [c \in Callers |-> IdleCo]
    /\ ret = NoRet
    /\ thr = [t \in Tasks |-> FreeThr]
    /\ main = "run"

NextSweep == clean_cache

SpecSweep == InitSweep /\ [][NextSweep]_vars

\* the start of the server on a cache root left by a previous run: resources
\* a plain one and a hidden one; left behind are final files, markers and
\* placeholders of downloads that were cut by the end of the process
MainPaths == {<<"a">>, <<".h">>}

LeftNames == {<<"a">>, <<"a", "404">>, <<"a", "tmp">>, <<".h", "tmp">>}

LeftFile(name) ==
    [dir |-> FALSE, data |-> IF EndsWith(name, "404") \/ EndsWith(name, "tmp") THEN <<>> ELSE <<1>>,
     mtime |-> 0, atime |-> 0]

InitMain ==
    /\ CONF \in [HTTP_CONN_RETRIES : 0..MaxServeRetries,
                 CACHE_INDEX_DURATION : {IndexDuration},
                 CACHE_FILE_DURATION : {FileDuration}]
    /\ remote = [p \in MainPaths |-> <<1>>]
    /\ now = 0
    /\ \E S \in SUBSET LeftNames : fs = [n \in S |-> LeftFile(n)]
    /\ co = [c \in Callers |-> IdleCo]
    /\ ret = NoRet
    /\ thr = [t \in Tasks |-> FreeThr]
    /\ main = "sanitize"

NextMain ==
    \/ sanitize_cache
    \/ \E c \in Callers, dest \in MainPaths, wt \in WaitTimeouts, mk \in BOOLEAN :
          robust_get(c, dest, wt, mk)
    \/ \E c \in Callers : EndFetch(c)
    \/ \E t \in Tasks, b \in BackendMoves : Request(t, b)
    \/ \E t \in Tasks, n \in 0..MaxRemote : Stream(t, n)
    \/ \E t \in Tasks : UnlinkTmp(t)

SpecMain == InitMain /\ [][NextMain]_vars

\* several server processes on one cache root: every caller is a process
NextProcs ==
    \/ \E c \in Callers, dest \in Paths : LookMarker(c, dest)
    \/ \E c \in Callers : LookDest(c)
    \/ \E c \in Callers, wt \in WaitTimeouts : LookTmp(c, wt)
    \/ \E c \in Callers, mk \in BOOLEAN : OpenTmp(c, mk)
    \/ \E c \in Callers, wt \in WaitTimeouts : Defer(c, wt)
    \/ \E c \in Callers : EndFetch(c)
    \/ \E t \in Tasks, b \in BackendMoves : Request(t, b)
    \/ \E t \in Tasks, n \in 0..MaxRemote : Stream(t, n)
    \/ \E t \in Tasks : UnlinkTmp(t)

SpecProcs == Init /\ [][NextProcs]_vars

\* requests served on a cache root that holds any combination of final file,
\* marker and placeholder of the path (a root shared with another server
\* process gets into each of them)
InitInspect ==
    /\ CONF \in [HTTP_CONN_RETRIES : {MaxServeRetries},
                 CACHE_INDEX_DURATION : {IndexDuration},
                 CACHE_FILE_DURATION : {FileDuration}]
    /\ remote = [p \in Paths |-> <<1>>]
    /\ now = 0
    /\ \E S \in SUBSET UNION {{p, Marker(p), Tmp(p)} : p \in Paths} :
          fs = [n \in S |-> LeftFile(n)]
    /\ co = [c \in Callers |-> IdleCo]
    /\ ret = NoRet
    /\ thr = [t \in Tasks |-> FreeThr]
    /\ main = "run"

SpecInspect == InitInspect /\ [][NextDownload]_vars

\* resources whose names differ by the suffixes the cache itself uses:
\* /TARS/a, /TARS/a.404 and /TARS/a.tmp
NamePaths == {<<"a">>, <<"a", "404">>, <<"a", "tmp">>}

InitNames ==
    /\ CONF \in [HTTP_CONN_RETRIES : {MaxServeRetries},
                 CACHE_INDEX_DURATION : {IndexDuration},
                 CACHE_FILE_DURATION : {FileDuration}]
    /\ remote = [p \in NamePaths |-> <<1>>]
    /\ now = 0
    /\ fs = [n \in {} |-> n]
    /\ co = [c \in Callers |-> IdleCo]
    /\ ret = NoRet
    /\ thr = [t \in Tasks |-> FreeThr]
    /\ main = "run"

NextNames ==
    \/ \E c \in Callers, dest \in NamePaths, wt \in WaitTimeouts, mk \in BOOLEAN :
          robust_get(c, dest, wt, mk)
    \/ \E c \in Callers : EndFetch(c)
    \/ \E t \in Tasks, b \in BackendMoves : Request(t, b)
    \/ \E t \in Tasks, n \in 0..MaxRemote : Stream(t, n)
    \/ \E t \in Tasks : UnlinkTmp(t)

SpecNames == InitNames /\ [][NextNames]_vars

(***************************************************************************)
(* Properties.                                                             *)
(***************************************************************************)
Outcomes == {"CACHE_HIT", "END_WAIT", "END_FETCH", "MUST_WAIT"}

\* this step is the first segment of a robust_get call by c for dest
Calls(c, dest) ==
    /\ co[c].pc = "idle" /\ now' = now /\ <<co, ret, thr>>' # <<co, ret, thr>>
    /\ \E wt \in WaitTimeouts, mk \in BOOLEAN : robust_get(c, dest, wt, mk)

\* coroutine c leaves its sleep in this step (to return or to sleep again)
Wakes(c) == co[c].pc = "sleeping" /\ (co'[c].pc # "sleeping" \/ co'[c].timer > co[c].timer)

\* invocation t ends in this step
Ends(t) == Active(thr[t]) /\ thr'[t].pc = "done"

\* what robust_get inspects for a path: marker, final file, placeholder
Inspected(f, dest) == <<IsFile(f, Marker(dest)), IsFile(f, dest), IsFile(f, Tmp(dest))>>

Absent(dest) == ~IsFile(fs, dest) /\ ~IsFile(fs, Marker(dest)) /\ ~IsFile(fs, Tmp(dest))

C2_FinalIsRemote ==
    \A t \in Tasks :
        (thr[t].pc = "done" /\ thr[t].result = "True")
            => (IsFile(fs, thr[t].dest) /\ fs[thr[t].dest].data = remote[thr[t].dest])

\* C3: a robust_get call for a path whose final file or failure marker exists
\* returns CACHE_HIT in its first segment, starts no invocation and makes no
\* request (thr unchanged) and changes no file.
C3_CacheHit ==
    [][\A c \in Callers, dest \in Paths :
        ((IsFile(fs, dest) \/ IsFile(fs, Marker(dest))) /\ Calls(c, dest))
            => /\ ret' = Returned(dest, "CACHE_HIT", FALSE)
               /\ co' = co
               /\ fs' = fs
               /\ thr' = thr]_vars

\* a hit on the failure marker
C3_Witness ==
    /\ ret.res = "CACHE_HIT"
    /\ IsFile(fs, Marker(ret.dest)) /\ ~IsFile(fs, Tmp(ret.dest))

\* C4: in the wait loop, MUST_WAIT is returned only with a deadline that has
\* elapsed, and is returned when the coroutine wakes up with the deadline
\* elapsed and the placeholder still there; without a deadline the coroutine
\* sleeps again for the poll interval while the placeholder exists and returns
\* END_WAIT only when it does not.
C4_Deadline ==
    [][\A c \in Callers :
        Wakes(c) =>
          LET C == co[c]
              elapsed == C.deadline # None /\ now > C.deadline
              back == co'[c].pc = "idle"
          IN /\ (back /\ ret'.res = "MUST_WAIT") => elapsed
             /\ (elapsed /\ IsFile(fs, Tmp(C.dest)))
                   => (back /\ ret' = Returned(C.dest, "MUST_WAIT", TRUE))
             /\ C.deadline = None =>
                   /\ IsFile(fs, Tmp(C.dest))
                         => (co'[c].pc = "sleeping" /\ co'[c].timer = PollInterval)
                   /\ back => (ret' = Returned(C.dest, "END_WAIT", TRUE)
                               /\ ~IsFile(fs, Tmp(C.dest)))]_vars

C4_Witness ==
    /\ ret.res = "MUST_WAIT" /\ ret.waited
    /\ IsFile(fs, Tmp(ret.dest))
    /\ \E d \in Callers : /\ co[d].pc = "sleeping" /\ co[d].dest = ret.dest
                          /\ co[d].deadline = None

\* C5 (as claimed): a coroutine waiting with a deadline whose placeholder went
\* away before the deadline elapsed returns END_WAIT, never MUST_WAIT.
C5_GoneBeforeDeadline ==
    [][\A c \in Callers :
        (/\ Wakes(c) /\ co'[c].pc = "idle"
         /\ co[c].deadline # None /\ co[c].early)
            => ret'.res = "END_WAIT"]_vars

\* C6 (as claimed): a call with a deadline for a path that has no file creates
\* the placeholder, starts the download and returns MUST_WAIT at once (only a
\* call without a deadline awaits); returning MUST_WAIT from the wait loop
\* leaves the download alone; the download ends only after it has produced the
\* final file or the failure marker.
C6_DetachedDownload ==
    [][/\ \A c \in Callers, dest \in Paths, wt \in WaitTimeouts :
            (Absent(dest) /\ robust_get(c, dest, wt, TRUE))
               => /\ IsFile(fs', Tmp(dest))
                  /\ Cardinality(ActiveOn(dest)') = 1
                  /\ IF wt # None
                     THEN co'[c].pc = "idle" /\ ret' = Returned(dest, "MUST_WAIT", FALSE)
                     ELSE co'[c].pc = "awaiting"
       /\ \A c \in Callers :
            (Wakes(c) /\ co'[c].pc = "idle" /\ ret'.res = "MUST_WAIT") => thr' = thr
       /\ \A t \in Tasks : (Ends(t) /\ ~Awaited(t)) => thr'[t].wrote \in {"final", "marker"}]_vars

\* C7 (as claimed): when the download ends with False and its last failure
\* was not a 404, it has made exactly HTTP_CONN_RETRIES attempts, has paused
\* before each attempt but the first, for 0.4 s and then 1.4 times the pause
\* before, and the failure marker exists and the placeholder does not.
C7_RetryBound ==
    [][\A t \in Tasks :
        (Ends(t) /\ thr'[t].result = "False" /\ ~thr[t].met404)
            => LET T == thr[t]
                   N == CONF.HTTP_CONN_RETRIES
               IN /\ T.attempts = N
                  /\ Len(T.pauses) = (IF N = 0 THEN 0 ELSE N - 1)
                  /\ Len(T.pauses) >= 1 => (T.pauses[1].num * 10 = 4 * T.pauses[1].den)
                  /\ \A k \in 1..(Len(T.pauses) - 1) :
                        T.pauses[k + 1].num * T.pauses[k].den * 10
                            = 14 * T.pauses[k].num * T.pauses[k + 1].den
                  /\ IsFile(fs', Marker(T.dest))
                  /\ ~IsFile(fs', Tmp(T.dest))]_vars

\* C8: after an attempt has met HTTP 404 the download makes no other attempt:
\* it writes the failure marker, then removes the placeholder and returns False.
C8_FastFail ==
    [][\A t \in Tasks :
        /\ thr'[t].met404 => thr'[t].pc = "unlink"
        /\ (~thr[t].met404 /\ thr'[t].met404)
              => (thr'[t].wrote = "marker" /\ IsFile(fs', Marker(thr'[t].dest)))
        /\ thr[t].met404 =>
              /\ thr'[t].attempts <= thr[t].attempts
              /\ thr'[t] # thr[t] => Ends(t)
              /\ Ends(t) => /\ thr'[t].result = "False"
                            /\ thr'[t].wrote = "marker"
                            /\ ~IsFile(fs', Tmp(thr[t].dest))]_vars

C8_Witness ==
    \E t \in Tasks :
        /\ thr[t].pc = "unlink" /\ thr[t].met404 /\ thr[t].attempts = 1
        /\ CONF.HTTP_CONN_RETRIES >= 2
        /\ IsFile(fs, Marker(thr[t].dest))

\* C9: robust_get returns one of the four GetRes values, or raises the OSError
\* of the local directory creation; no failure of a request is raised by
\* robust_get_sync, and a download that made a request ends only after it has
\* written the final file or the failure marker.
C9_ErrorsAbsorbed ==
    [][/\ ret' # NoRet
            => \/ ret'.res \in Outcomes /\ ret'.exc = "none"
               \/ /\ ret' = Raised(ret'.dest, "OSError")
                  /\ \E c \in Callers, wt \in WaitTimeouts :
                        robust_get(c, ret'.dest, wt, FALSE)
       /\ \A t \in Tasks :
            Ends(t) => /\ thr'[t].result \in {"True", "False"}
                       /\ thr'[t].exc = "none"
                       /\ thr[t].attempts >= 1 =>
                             \/ thr'[t].result = "True" /\ thr'[t].wrote = "final"
                             \/ thr'[t].result = "False" /\ thr'[t].wrote = "marker"]_vars

\* an awaited download that ended on the failure marker
C9_Witness ==
    /\ ret.res = "END_FETCH"
    /\ IsFile(fs, Marker(ret.dest)) /\ ~IsFile(fs, Tmp(ret.dest))
    /\ \E t \in Tasks : /\ thr[t].pc = "done" /\ thr[t].dest = ret.dest
                        /\ thr[t].result = "False" /\ thr[t].wrote = "marker"

C12_EvictionDuality ==
    \A n \in DOMAIN fs :
        (~IsDir(fs, n) /\ ~EndsWith(n, "tmp"))
            => ((n \in Swept(fs, now))
                  <=> IF IsIndexName(n) \/ EndsWith(n, "404")
                      THEN now - fs[n].mtime > Seconds(CONF.CACHE_INDEX_DURATION)
                      ELSE now - fs[n].atime > Seconds(CONF.CACHE_FILE_DURATION))

C14_MutualExclusion == \A dest \in Paths : Cardinality(ActiveOn(dest)) <= 1

\* C15 (as claimed): for every HTTP_CONN_RETRIES and every behaviour of the
\* backend, a path whose download has been started eventually is one whose
\* download has ended, has produced the final file or the failure marker, and
\* has left no placeholder.
C15_DownloadTermination ==
    \A dest \in Paths :
        (ActiveOn(dest) # {})
            ~> (/\ ~IsFile(fs, Tmp(dest))
                /\ \E t \in Tasks : /\ thr[t].pc = "done" /\ thr[t].dest = dest
                                     /\ thr[t].wrote \in {"final", "marker"})

C17_ResumeOffset ==
    [][\A t \in Tasks :
        LET dest == thr[t].dest
            tmp == Tmp(dest)
            k == Len(fs[tmp].data)
        IN /\ (thr[t].pc = "request" /\ thr'[t].pc = "stream" /\ k > 0)
                 => \A j \in 1..Len(thr'[t].body) :
                       /\ k + j <= Len(remote[dest])
                       /\ thr'[t].body[j] = remote[dest][k + j]
           /\ (Active(thr[t]) /\ Active(thr'[t]) /\ thr'[t].pc # "unlink")
                 => /\ IsFile(fs', tmp)
                    /\ Len(fs'[tmp].data) >= k
                    /\ SubSeq(fs'[tmp].data, 1, k) = fs[tmp].data]_vars

\* C18: terminal states win. A robust_get call for a path that has a failure
\* marker or a final file returns CACHE_HIT also when the placeholder of the
\* path exists, without waiting, starting a download or changing a file; a
\* call goes to the wait loop only for a path that has the placeholder and
\* neither marker nor final file.
C18_TerminalWins ==
    [][\A c \in Callers, dest \in Paths :
        Calls(c, dest) =>
            /\ (IsFile(fs, Tmp(dest)) /\ (IsFile(fs, Marker(dest)) \/ IsFile(fs, dest)))
                  => /\ ret' = Returned(dest, "CACHE_HIT", FALSE)
                     /\ co'[c].pc = "idle"
                     /\ fs' = fs /\ thr' = thr
            /\ co'[c].pc = "sleeping"
                  => /\ IsFile(fs, Tmp(dest))
                     /\ ~IsFile(fs, Marker(dest)) /\ ~IsFile(fs, dest)]_vars

\* a hit on a final file whose placeholder exists too
C18_Witness ==
    /\ ret.res = "CACHE_HIT"
    /\ IsFile(fs, ret.dest) /\ IsFile(fs, Tmp(ret.dest)) /\ ~IsFile(fs, Marker(ret.dest))

\* C19: the periodic sweep removes no placeholder and no directory, whatever
\* their age, and changes neither them nor a running download; a placeholder
\* goes away only in the step in which the download of its path ends, by the
\* rename or by the unlink.
C19_SweepSparesPlaceholders ==
    [][/\ \A n \in Swept(fs, now) : ~EndsWith(n, "tmp") /\ ~IsDir(fs, n)
       /\ (fs' # fs /\ clean_cache)
            => /\ thr' = thr
               /\ \A n \in DOMAIN fs :
                     (EndsWith(n, "tmp") \/ IsDir(fs, n))
                         => (n \in DOMAIN fs' /\ fs'[n] = fs[n])
       /\ \A dest \in Paths :
            (IsFile(fs, Tmp(dest)) /\ ~IsFile(fs', Tmp(dest)))
                => \E t \in Tasks : /\ thr[t].dest = dest /\ Ends(t)
                                    /\ thr[t].pc \in {"stream", "unlink"}]_vars

\* the sweep has removed the marker of a download that is giving up and has
\* left its placeholder and its directory, both old enough for a content file
\* to be evicted
C19_Witness ==
    \E t \in Tasks :
        LET dest == thr[t].dest IN
        /\ thr[t].pc = "unlink"
        /\ ~IsFile(fs, Marker(dest))
        /\ IsFile(fs, Tmp(dest))
        /\ IntSec(now - fs[Tmp(dest)].atime) > CONF.CACHE_FILE_DURATION
        /\ IsDir(fs, DirName(dest))
        /\ IntSec(now - fs[DirName(dest)].atime) > CONF.CACHE_FILE_DURATION

\* C20 (as claimed): a step of a fetch or of a download of path p leaves what
\* robust_get inspects for every other path q as it was, also when the name
\* of q is that of p followed by .tmp or .404, or the other way round.
C20_Independence ==
    [][\A p, q \in NamePaths :
        (/\ p # q
         /\ \E t \in Tasks : thr'[t] # thr[t] /\ p \in {thr[t].dest, thr'[t].dest})
            => Inspected(fs', q) = Inspected(fs, q)]_vars

====
